---- MODULE Spec2Model ----
(***************************************************************************)
(* Model of setup_vscode.py: one invocation of main() discovers Python     *)
(* search paths and local package names, then merges them into             *)
(* .vscode/settings.json and pyproject.toml.  The file system, the         *)
(* environment and the command line are fixed inputs of a behaviour; the   *)
(* tool is run up to MaxRuns times in a row on what it left behind.        *)
(*                                                                         *)
(* Strings that the code builds are sequences of atoms; a path is the      *)
(* sequence of its components (pathlib's .parts without the root), each    *)
(* component a sequence of atoms: literal chunks and interpolated fields.  *)
(***************************************************************************)
EXTENDS Integers, Sequences, FiniteSets, TLC

VARIABLES
    argv,            \* sys.argv
    dirs,            \* paths that are directories on disk
    files,           \* paths that are regular files on disk (documents apart)
    installOrder,    \* names in install/, in the order iterdir() yields them
    environ,         \* PYTHONPATH split on ':' (<<>>: unset or empty)
    ioFails,         \* documents whose open('w') raises OSError
    settings,        \* content of .vscode/settings.json
    pyproject,       \* content of pyproject.toml
    pc,              \* position of main()
    status,          \* exit status of the process (-1 while running)
    exc,             \* uncaught exception that ended the process, or "none"
    run,             \* number of the current invocation
    candidates,      \* python_paths as accumulated, before de-duplication
    python_paths,    \* main's python_paths
    local_packages,  \* main's local_packages
    called,          \* functions main() has called in this invocation
    start,           \* documents and directories when this invocation began
    first            \* documents as the first invocation left them, and the
                     \* directories it began with

vars == <<argv, dirs, files, installOrder, environ, ioFails, settings, pyproject,
          pc, status, exc, run, candidates, python_paths, local_packages,
          called, start, first>>

env == <<argv, files, installOrder, environ, ioFails>>

\* ---------------------------------------------------------------- bounds
MaxRuns == 2
MaxEnvLen == 2

\* ------------------------------------------------------- sequence helpers
Range(s) == {s[i] : i \in 1..Len(s)}

SeqsUpTo(S, n) == UNION {[1..k -> S] : k \in 0..n}

\* Index of the first occurrence of x in s (0 when absent).
FirstIndex(s, x) ==
    IF x \in Range(s) THEN CHOOSE i \in 1..Len(s) : s[i] = x /\ \A j \in 1..(i-1) : s[j] # x
    ELSE 0

\* ------------------------------------------------------------------ paths
Comp(atom) == <<atom>>

\* sys.version_info.major / .minor of the running interpreter
VersionMajor == "3"
VersionMinor == "12"

\* get_python_version_string(): f'python{major}.{minor}'
get_python_version_string == <<"python", VersionMajor, ".", VersionMinor>>

\* The whitespace that a backslash-newline inside a string literal keeps:
\* the indentation of the continuation line.
Indent29 == "                             "
Indent34 == "                                  "
Indent36 == "                                    "
Indent12 == "            "

\* Path.cwd()
workspace_root == <<Comp("ws")>>

\* sys.executable
interpreter_path == "/ws/.venv/bin/python3"

RosRoot(ros_distro_comp) == <<Comp("opt"), Comp("ros"), ros_distro_comp, Comp("lib")>>

\* The directories a ROS 2 distribution installs its Python packages in:
\* /opt/ros/<distro>/lib/pythonX.Y/site-packages and .../dist-packages.
RosSitePackages(ros_distro) ==
    RosRoot(Comp(ros_distro)) \o <<get_python_version_string, Comp("site-packages")>>
RosDistPackages(ros_distro) ==
    RosRoot(Comp(ros_distro)) \o <<get_python_version_string, Comp("dist-packages")>>

\* The three paths find_paths_and_packages probes, as its f-strings evaluate.
base_ros_path(ros_distro) ==
    RosRoot(Comp(ros_distro))
        \o << <<"python", Indent29, VersionMajor, ".", VersionMinor, "]", Indent29>>,
              Comp("site-packages") >>
dist_packages_path(ros_distro) ==
    RosRoot(Comp(ros_distro))
        \o << <<"python", Indent34, VersionMajor, ".", Indent36, VersionMinor>>,
              Comp("dist-packages") >>
system_site_packages(ros_distro, python_version) ==
    RosRoot(<<"\\", ros_distro>>) \o <<python_version, Comp("site-packages")>>

install_dir == workspace_root \o <<Comp("install")>>
PackageDir(name) == install_dir \o <<Comp(name)>>

\* possible_paths of one package directory, in the order of the list.
possible_paths(package_dir, python_version) ==
    << package_dir \o <<Comp("lib"), python_version, Comp("site-packages")>>,
       package_dir \o <<Comp("lib"),
                        <<"python", Indent12, VersionMajor, ".", VersionMinor>>,
                        Comp("site-packages")>>,
       package_dir \o <<Comp("lib")>> >>

settings_dir == workspace_root \o <<Comp(".vscode")>>

\* ------------------------------------------------- find_paths_and_packages
\* Keep the elements of a sequence of paths that are directories, in order.
RECURSIVE ExistingDirs(_, _)
ExistingDirs(fsDirs, paths) ==
    IF paths = <<>> THEN <<>>
    ELSE (IF Head(paths) \in fsDirs THEN <<Head(paths)>> ELSE <<>>)
             \o ExistingDirs(fsDirs, Tail(paths))

\* The `if ros_distro:` block.
RosPaths(fsDirs, python_version, ros_distro) ==
    IF ros_distro # ""
    THEN ExistingDirs(fsDirs, << base_ros_path(ros_distro),
                                 dist_packages_path(ros_distro),
                                 system_site_packages(ros_distro, python_version) >>)
    ELSE <<>>

\* The loop over install_dir.iterdir(): names of the entries that are directories.
RECURSIVE ScanPackages(_, _)
ScanPackages(fsDirs, entries) ==
    IF entries = <<>> THEN <<>>
    ELSE (IF PackageDir(Head(entries)) \in fsDirs THEN <<Head(entries)>> ELSE <<>>)
             \o ScanPackages(fsDirs, Tail(entries))

RECURSIVE LocalPaths(_, _, _)
LocalPaths(fsDirs, python_version, pkgs) ==
    IF pkgs = <<>> THEN <<>>
    ELSE ExistingDirs(fsDirs, possible_paths(PackageDir(Head(pkgs)), python_version))
             \o LocalPaths(fsDirs, python_version, Tail(pkgs))

\* The PYTHONPATH block: entries that are non-empty and directories.
RECURSIVE EnvPaths(_, _)
EnvPaths(fsDirs, python_path_env) ==
    IF python_path_env = <<>> THEN <<>>
    ELSE (IF Head(python_path_env) # <<>> /\ Head(python_path_env) \in fsDirs
          THEN <<Head(python_path_env)>> ELSE <<>>)
             \o EnvPaths(fsDirs, Tail(python_path_env))

\* A de-duplication that keeps the last occurrence of each path.
RECURSIVE UniqueKeepLast(_)
UniqueKeepLast(paths) ==
    IF paths = <<>> THEN <<>>
    ELSE (IF Head(paths) \in Range(Tail(paths)) THEN <<>> ELSE <<Head(paths)>>)
             \o UniqueKeepLast(Tail(paths))

\* The seen/unique_paths loop.
RECURSIVE UniqueFrom(_, _)
UniqueFrom(seen, paths) ==
    IF paths = <<>> THEN <<>>
    ELSE IF Head(paths) \notin seen
         THEN <<Head(paths)>> \o UniqueFrom(seen \cup {Head(paths)}, Tail(paths))
         ELSE UniqueFrom(seen, Tail(paths))

unique_paths(paths) == UniqueFrom({}, paths)

\* Package and manual names, in Python's string order.
NameOrder == <<"bar", "foo", "manual">>
Rank(name) == FirstIndex(NameOrder, name)

\* sorted(list(set(names)))
RECURSIVE SortSet(_)
SortSet(S) ==
    IF S = {} THEN <<>>
    ELSE LET m == CHOOSE x \in S : \A y \in S : Rank(x) <= Rank(y)
         IN <<m>> \o SortSet(S \ {m})

SortedUnique(names) == SortSet(Range(names))

\* python_paths as accumulated when the function reaches the de-duplication.
Accumulated(fsDirs, entries, python_path_env, python_version, ros_distro) ==
    RosPaths(fsDirs, python_version, ros_distro)
        \o LocalPaths(fsDirs, python_version, ScanPackages(fsDirs, entries))
        \o EnvPaths(fsDirs, python_path_env)

\* The function from the loop over install/ to its return: what it has
\* accumulated, and the two collections it returns.
ScanAndReturn(fsDirs, entries, python_path_env, python_version, ros_distro) ==
    LET acc == Accumulated(fsDirs, entries, python_path_env, python_version, ros_distro)
    IN [acc |-> acc,
        paths |-> unique_paths(acc),
        packages |-> SortedUnique(ScanPackages(fsDirs, entries))]

\* find_paths_and_packages without the early return on a missing install/.
FindWithoutInstallCheck(fsDirs, entries, python_path_env, python_version, ros_distro) ==
    ScanAndReturn(fsDirs, entries, python_path_env, python_version, ros_distro)

find_paths_and_packages(fsDirs, entries, python_path_env, python_version, ros_distro) ==
    IF install_dir \notin fsDirs
    THEN [acc |-> RosPaths(fsDirs, python_version, ros_distro),
          paths |-> <<>>, packages |-> <<>>]
    ELSE ScanAndReturn(fsDirs, entries, python_path_env, python_version, ros_distro)

\* -------------------------------------------------------------- documents
\* A JSON / TOML value: a string, an array, the constant false, or a table
\* (d: a function from keys to values).
Str(s) == [tag |-> "string", s |-> s, l |-> <<>>, d |-> <<>>]
Arr(l) == [tag |-> "array", s |-> "", l |-> l, d |-> <<>>]
False == [tag |-> "false", s |-> "", l |-> <<>>, d |-> <<>>]
Table(d) == [tag |-> "table", s |-> "", l |-> <<>>, d |-> d]
EmptyTable == Table(<<>>)

\* A document on disk: missing, text the parser rejects, or a parsed value.
AbsentFile == [kind |-> "absent", value |-> EmptyTable]
CorruptFile == [kind |-> "corrupt", value |-> EmptyTable]
Parsed(value) == [kind |-> "parsed", value |-> value]

\* d[k] = v on a dict
Put(d, k, v) == [x \in (DOMAIN d) \cup {k} |-> IF x = k THEN v ELSE d[x]]

\* d.get(k, default)
Get(d, k, default) == IF k \in DOMAIN d THEN d[k] ELSE default

OwnedKeys == {"python.defaultInterpreterPath", "python.analysis.extraPaths",
              "python.autoComplete.extraPaths", "python.analysis.typeCheckingMode",
              "python.analysis.diagnosticMode", "cmake.configureOnOpen"}

\* ------------------------------------------------- update_vscode_settings
\* Assignments that extend the extraPaths lists already in the document
\* instead of replacing them.
SetOwnedKeysExtending(settings_data, paths, interpreter) ==
    LET before == Get(settings_data, "python.analysis.extraPaths", Arr(<<>>)).l
        d1 == Put(settings_data, "python.defaultInterpreterPath", Str(interpreter))
        d2 == Put(d1, "python.analysis.extraPaths", Arr(before \o paths))
        d3 == Put(d2, "python.autoComplete.extraPaths", Arr(before \o paths))
        d4 == Put(d3, "python.analysis.typeCheckingMode", Str("basic"))
        d5 == Put(d4, "python.analysis.diagnosticMode", Str("openFilesOnly"))
    IN Put(d5, "cmake.configureOnOpen", False)

\* The six assignments to settings_data.
SetOwnedKeys(settings_data, paths, interpreter) ==
    LET d1 == Put(settings_data, "python.defaultInterpreterPath", Str(interpreter))
        d2 == Put(d1, "python.analysis.extraPaths", Arr(paths))
        d3 == Put(d2, "python.autoComplete.extraPaths", Arr(paths))
        d4 == Put(d3, "python.analysis.typeCheckingMode", Str("basic"))
        d5 == Put(d4, "python.analysis.diagnosticMode", Str("openFilesOnly"))
    IN Put(d5, "cmake.configureOnOpen", False)

\* A reader that starts from {} whatever the file holds.
LoadSettingsDiscarding(file) == EmptyTable

\* settings_data as read: {} when the file is missing or json.load raises
\* JSONDecodeError, else whatever value json.load returned.
LoadSettings(file) == IF file.kind = "parsed" THEN file.value ELSE EmptyTable

\* A writer that opens settings.json for writing before it fills in
\* settings_data, so that an exception leaves the file truncated.
UpdateSettingsOpenFirst(fsDirs, fsFiles, file, paths, interpreter, fails) ==
    IF settings_dir \in fsFiles
    THEN [raised |-> "FileExistsError", dirs |-> fsDirs, file |-> file]
    ELSE LET made == fsDirs \cup {settings_dir}
             settings_data == LoadSettings(file)
             opened == IF "settings.json" \in fails THEN file ELSE CorruptFile
         IN IF settings_data.tag # "table"
            THEN [raised |-> "TypeError", dirs |-> made, file |-> opened]
            ELSE [raised |-> "none", dirs |-> made,
                  file |-> IF "settings.json" \in fails
                           THEN file
                           ELSE Parsed(Table(SetOwnedKeys(settings_data.d, paths,
                                                          interpreter)))]

\* Outcome of the call: the exception that escapes it ("none" when it
\* returns), and the directories and the settings file it leaves.
update_vscode_settings(fsDirs, fsFiles, file, paths, interpreter, fails) ==
    IF settings_dir \in fsFiles
    THEN \* mkdir(exist_ok=True) on a path that is not a directory
         [raised |-> "FileExistsError", dirs |-> fsDirs, file |-> file]
    ELSE LET made == fsDirs \cup {settings_dir}
             settings_data == LoadSettings(file)
         IN IF settings_data.tag # "table"
            THEN \* item assignment on a list, str, number or None
                 [raised |-> "TypeError", dirs |-> made, file |-> file]
            ELSE [raised |-> "none", dirs |-> made,
                  file |-> IF "settings.json" \in fails
                           THEN file
                           ELSE Parsed(Table(SetOwnedKeys(settings_data.d, paths,
                                                          interpreter)))]

\* -------------------------------------------------- update_pyproject_toml
IsortPath == <<"tool", "ruff", "lint", "isort">>

\* The chain of setdefault(key, {}) calls: the table reached after following
\* the first n keys of IsortPath from toml_data.
RECURSIVE Section(_, _)
Section(toml_data, n) ==
    IF n = 0 THEN toml_data
    ELSE LET parent == Section(toml_data, n - 1)
         IN IF parent.tag = "table" THEN Get(parent.d, IsortPath[n], EmptyTable)
            ELSE parent

\* toml_data with the section reached after n keys replaced by `section`.
RECURSIVE WithSection(_, _, _)
WithSection(toml_data, n, section) ==
    IF n = 0 THEN section
    ELSE WithSection(toml_data, n - 1,
                     Table(Put(Section(toml_data, n - 1).d, IsortPath[n], section)))

\* Does the navigation or the merge raise (AttributeError on a section that
\* is not a table, TypeError on a known-first-party that is not a list)?
MergeRaises(toml_data) ==
    \/ \E n \in 0..Len(IsortPath) : Section(toml_data, n).tag # "table"
    \/ Get(Section(toml_data, Len(IsortPath)).d, "known-first-party", Arr(<<>>)).tag
           # "array"

\* updated_list that appends without de-duplicating or sorting.
AppendPackages(known_first_party, packages) == known_first_party \o packages

\* updated_list = sorted(list(set(known_first_party + local_packages)))
updated_list(known_first_party, packages) ==
    SortedUnique(known_first_party \o packages)

MergeKnownFirstParty(toml_data, packages) ==
    LET isort_section == Section(toml_data, Len(IsortPath))
        known_first_party == Get(isort_section.d, "known-first-party", Arr(<<>>)).l
    IN WithSection(toml_data, Len(IsortPath),
                   Table(Put(isort_section.d, "known-first-party",
                             Arr(updated_list(known_first_party, packages)))))

\* The pyproject.toml file the call leaves.
update_pyproject_toml(file, packages, fails) ==
    IF file.kind = "absent" THEN file
    ELSE IF file.kind = "corrupt" THEN file          \* toml.load raises: caught
    ELSE IF MergeRaises(file.value) THEN file        \* caught
    ELSE IF "pyproject.toml" \in fails THEN file     \* open('w') raises: caught
    ELSE Parsed(MergeKnownFirstParty(file.value, packages))

\* ------------------------------------------------------------ the inputs
ScriptName == "setup_vscode.py"
Distro == "kilted"

\* sys.argv: no argument, an empty argument, a distribution name.
ArgvChoices == {<<ScriptName>>, <<ScriptName, "">>, <<ScriptName, Distro>>}

ProperRosDirs == {RosSitePackages(Distro), RosDistPackages(Distro)}
ProbedRosDirs == {base_ros_path(Distro), dist_packages_path(Distro),
                  system_site_packages(Distro, get_python_version_string)}

\* What /opt/ros holds: nothing, the distribution as ROS 2 installs it, or
\* that and directories with the names the code probes.
RosWorlds == {{}, ProperRosDirs, ProperRosDirs \cup ProbedRosDirs}

\* An entry of install/: a regular file, a bare directory, a directory with
\* lib/pythonX.Y/site-packages, or one with every probed sub-path.
EntryDirs(name, kind) ==
    LET pp == possible_paths(PackageDir(name), get_python_version_string)
    IN CASE kind = "file" -> {}
         [] kind = "dir" -> {PackageDir(name)}
         [] kind = "site" -> {PackageDir(name), pp[3], pp[1]}
         [] kind = "all" -> {PackageDir(name), pp[3], pp[1], pp[2]}

Perms(S) == {s \in [1..Cardinality(S) -> S] : Range(s) = S}

\* The workspace's install/ tree: missing, or a directory with entries in
\* some on-disk order.
InstallWorlds(names, kinds) ==
    {[present |-> FALSE, kindOf |-> <<>>, order |-> <<>>]}
        \cup {[present |-> TRUE, kindOf |-> k, order |-> o] :
                 k \in UNION {[S -> kinds] : S \in SUBSET names},
                 o \in UNION {Perms(S) : S \in SUBSET names}}

InstallDirs(w) ==
    IF w.present
    THEN {install_dir} \cup UNION {EntryDirs(n, w.kindOf[n]) : n \in DOMAIN w.kindOf}
    ELSE {}
InstallFiles(w) ==
    {PackageDir(n) : n \in {m \in DOMAIN w.kindOf : w.kindOf[m] = "file"}}

ExtraDir == <<Comp("extra"), Comp("site-packages")>>
MissingDir == <<Comp("missing")>>
EmptyEntry == <<>>
FooSite == possible_paths(PackageDir("foo"), get_python_version_string)[1]

\* .vscode and settings.json: no directory, a regular file named .vscode,
\* or the directory with settings.json missing, unparseable, a JSON value
\* that is not an object, or an object.
ForeignKey == "editor.tabSize"
StaleSettings ==
    ("python.analysis.extraPaths" :> Arr(<<MissingDir>>))
        @@ ("python.analysis.typeCheckingMode" :> Str("strict"))
        @@ (ForeignKey :> Str("4"))
SettingsFiles == {AbsentFile, CorruptFile, Parsed(Arr(<<>>)), Parsed(EmptyTable),
                  Parsed(Table(ForeignKey :> Str("4"))), Parsed(Table(StaleSettings))}
SettingsWorlds ==
    {[dirs |-> {}, files |-> {}, file |-> AbsentFile],
     [dirs |-> {}, files |-> {settings_dir}, file |-> AbsentFile]}
        \cup {[dirs |-> {settings_dir}, files |-> {}, file |-> f] : f \in SettingsFiles}

\* pyproject.toml: missing, unparseable, or a document with none, some or
\* all of the tables down to [tool.ruff.lint.isort].
Project == "project" :> Table("name" :> Str("template"))
Isort(known) == Table("known-first-party" :> known)
Ruff(lint) == ("tool" :> Table("ruff" :> Table(("line-length" :> Str("100")) @@ lint)))
PyprojectFiles ==
    {AbsentFile, CorruptFile,
     Parsed(Table(Project)),
     Parsed(Table(Project @@ Ruff(<<>>))),
     Parsed(Table(Project @@ Ruff("lint" :> Table("isort" :> Isort(Arr(<<"manual", "foo">>)))))),
     Parsed(Table(Project @@ Ruff("lint" :> Table("isort" :> Isort(Arr(<<"foo", "bar", "foo">>)))))),
     Parsed(Table(Project @@ Ruff("lint" :> Table("isort" :> Isort(Str("foo"))))))}

FailWorlds == SUBSET {"settings.json", "pyproject.toml"}

NotYet == [done |-> FALSE, settings |-> AbsentFile, pyproject |-> AbsentFile,
           dirs |-> {}]

InitFrom(argvs, rosWorlds, installWorlds, envs, settingsWorlds, pyprojects, failWorlds) ==
    /\ argv \in argvs
    /\ \E r \in rosWorlds, i \in installWorlds, v \in settingsWorlds :
          /\ dirs = r \cup InstallDirs(i) \cup v.dirs \cup {ExtraDir}
          /\ files = InstallFiles(i) \cup v.files
          /\ installOrder = i.order
          /\ i.present => DOMAIN i.kindOf = Range(i.order)
          /\ settings = v.file
    /\ environ \in envs
    /\ ioFails \in failWorlds
    /\ pyproject \in pyprojects
    /\ pc = "start"
    /\ status = -1
    /\ exc = "none"
    /\ run = 1
    /\ candidates = <<>>
    /\ python_paths = <<>>
    /\ local_packages = <<>>
    /\ called = {}
    /\ start = [settings |-> settings, pyproject |-> pyproject, dirs |-> dirs]
    /\ first = NotYet

\* Whole runs over every kind of document, with a few discovery inputs.
Init ==
    InitFrom(ArgvChoices, {ProperRosDirs, ProperRosDirs \cup ProbedRosDirs},
             InstallWorlds({"foo", "bar"}, {"site"}) \cup InstallWorlds({"foo"}, {"dir"}),
             SeqsUpTo({settings_dir}, MaxEnvLen),
             SettingsWorlds, PyprojectFiles, FailWorlds)

\* Every kind of discovery input, with the documents of a fresh workspace.
InitDiscovery ==
    InitFrom(ArgvChoices, RosWorlds,
             InstallWorlds({"foo", "bar"}, {"file", "dir", "site", "all"}),
             SeqsUpTo({EmptyEntry, ExtraDir, MissingDir, FooSite}, MaxEnvLen),
             {[dirs |-> {}, files |-> {}, file |-> AbsentFile]},
             {Parsed(Table(Project))}, {{}})

\* ------------------------------------------------------------------ main
\* len(sys.argv) < 2: usage error.
MissingArgument ==
    /\ pc = "start"
    /\ Len(argv) < 2
    /\ pc' = "exit"
    /\ status' = 1
    /\ UNCHANGED <<env, dirs, settings, pyproject, exc, run, candidates,
                   python_paths, local_packages, called, start, first>>

\* Step 3: python_paths, local_packages = find_paths_and_packages(...)
Discover ==
    /\ pc = "start"
    /\ Len(argv) >= 2
    /\ LET found == find_paths_and_packages(dirs, installOrder, environ,
                                            get_python_version_string, argv[2])
       IN /\ candidates' = found.acc
          /\ python_paths' = found.paths
          /\ local_packages' = found.packages
    /\ called' = called \cup {"find_paths_and_packages"}
    /\ pc' = "found"
    /\ UNCHANGED <<env, dirs, settings, pyproject, status, exc, run, start, first>>

\* Does main stop after discovery?
NothingFound == python_paths = <<>> /\ local_packages = <<>>

\* `if not python_paths and not local_packages: sys.exit(1)`
NoPackages ==
    /\ pc = "found"
    /\ NothingFound
    /\ pc' = "exit"
    /\ status' = 1
    /\ UNCHANGED <<env, dirs, settings, pyproject, exc, run, candidates,
                   python_paths, local_packages, called, start, first>>

\* Step 4: `if python_paths: update_vscode_settings(...)`; an exception
\* that escapes the call ends the process with a traceback and status 1.
UpdatePylance ==
    /\ pc = "found"
    /\ ~NothingFound
    /\ IF python_paths # <<>>
       THEN LET out == update_vscode_settings(dirs, files, settings, python_paths,
                                              interpreter_path, ioFails)
            IN /\ dirs' = out.dirs
               /\ settings' = out.file
               /\ exc' = out.raised
               /\ called' = called \cup {"update_vscode_settings"}
               /\ pc' = IF out.raised = "none" THEN "ruff" ELSE "exit"
               /\ status' = IF out.raised = "none" THEN -1 ELSE 1
       ELSE /\ pc' = "ruff"
            /\ UNCHANGED <<dirs, settings, exc, called, status>>
    /\ UNCHANGED <<env, pyproject, run, candidates, python_paths, local_packages,
                   start, first>>

\* Step 5: `if local_packages: update_pyproject_toml(...)`, then main returns.
UpdateRuff ==
    /\ pc = "ruff"
    /\ IF local_packages # <<>>
       THEN /\ pyproject' = update_pyproject_toml(pyproject, local_packages, ioFails)
            /\ called' = called \cup {"update_pyproject_toml"}
       ELSE UNCHANGED <<pyproject, called>>
    /\ pc' = "exit"
    /\ status' = 0
    /\ UNCHANGED <<env, dirs, settings, exc, run, candidates, python_paths,
                   local_packages, start, first>>

\* The tool is invoked again with the same command line and environment, on
\* the file system the previous invocation left.
Rerun ==
    /\ pc = "exit"
    /\ run < MaxRuns
    /\ run' = run + 1
    /\ pc' = "start"
    /\ status' = -1
    /\ exc' = "none"
    /\ candidates' = <<>>
    /\ python_paths' = <<>>
    /\ local_packages' = <<>>
    /\ called' = {}
    /\ start' = [settings |-> settings, pyproject |-> pyproject, dirs |-> dirs]
    /\ first' = IF run = 1
                THEN [done |-> TRUE, settings |-> settings, pyproject |-> pyproject,
                      dirs |-> start.dirs]
                ELSE first
    /\ UNCHANGED <<env, dirs, settings, pyproject>>

Next ==
    \/ MissingArgument
    \/ Discover
    \/ NoPackages
    \/ UpdatePylance
    \/ UpdateRuff
    \/ Rerun

Spec == Init /\ [][Next]_vars

SpecDiscovery == InitDiscovery /\ [][Next]_vars

\* ---------------------------------------------------------- observations
Exited == pc = "exit"
Writers == {"update_vscode_settings", "update_pyproject_toml"}

IsObject(file) == file.kind = "parsed" /\ file.value.tag = "table"
KeysOf(file) == IF IsObject(file) THEN DOMAIN file.value.d ELSE {}

\* The tables from the root of a TOML document down to [tool.ruff.lint.isort],
\* each {} when it or an ancestor is missing.
ToolOf(file) == Get(file.value.d, "tool", EmptyTable)
RuffOf(file) == Get(ToolOf(file).d, "ruff", EmptyTable)
LintOf(file) == Get(RuffOf(file).d, "lint", EmptyTable)
IsortOf(file) == Get(LintOf(file).d, "isort", EmptyTable)
KnownFirstPartyOf(file) == Get(IsortOf(file).d, "known-first-party", Arr(<<>>))

\* A pyproject.toml the merge can process: it parses, the sections on the way
\* are tables and known-first-party, when present, is a list.
Mergeable(file) ==
    /\ file.kind = "parsed"
    /\ {ToolOf(file).tag, RuffOf(file).tag, LintOf(file).tag, IsortOf(file).tag} = {"table"}
    /\ KnownFirstPartyOf(file).tag = "array"

\* update_pyproject_toml was called in this invocation and reached its end.
RuffUpdated ==
    /\ "update_pyproject_toml" \in called
    /\ Mergeable(start.pyproject)
    /\ "pyproject.toml" \notin ioFails

\* (C1) Preservation: a key of settings.json that is not one of the six owned
\* keys and was there when the invocation began is there, with the same
\* value, at every later point of the invocation.
C1_Preservation ==
    \A k \in KeysOf(start.settings) \ OwnedKeys :
        /\ k \in KeysOf(settings)
        /\ settings.value.d[k] = start.settings.value.d[k]

\* (C1) witness: a run rewrote a settings document that held a foreign key.
C1_Witness ==
    /\ Exited /\ status = 0
    /\ "update_vscode_settings" \in called
    /\ ForeignKey \in KeysOf(start.settings)
    /\ settings # start.settings

\* (C2) Union law: once update_pyproject_toml has succeeded, known-first-party
\* is strictly ascending (so free of duplicates) and holds exactly the names
\* of the previous list (none when the key or a table above it was missing)
\* and the discovered local packages.
C2_UnionLaw ==
    RuffUpdated =>
        LET new == KnownFirstPartyOf(pyproject).l
            old == KnownFirstPartyOf(start.pyproject).l
        IN /\ Mergeable(pyproject)
           /\ Range(new) = Range(old) \cup Range(local_packages)
           /\ \A i, j \in 1..Len(new) : i < j => Rank(new[i]) < Rank(new[j])

\* (C2) witness: "foo" was listed together with a manual entry, discovery
\* found "foo" too, and the merge went through.
C2_Witness ==
    /\ RuffUpdated
    /\ "foo" \in Range(KnownFirstPartyOf(start.pyproject).l)
    /\ "manual" \in Range(KnownFirstPartyOf(start.pyproject).l)
    /\ "foo" \in Range(local_packages)

SameEnvDirs == \A p \in Range(environ) : (p \in dirs) <=> (p \in first.dirs)

C4_ExitStatus ==
    Exited => /\ status \in {0, 1}
              /\ status = 1 <=> (Len(argv) < 2 \/ NothingFound)
              /\ exc = "none"

\* (C5) No write on failure: an invocation that ends with status 1 leaves
\* both documents and the directories as it found them, and one that ends in
\* sys.exit(1) has called neither writer.
C5_NoWriteOnExit1 ==
    (Exited /\ status = 1) =>
        /\ settings = start.settings
        /\ pyproject = start.pyproject
        /\ dirs = start.dirs
        /\ exc = "none" => called \cap Writers = {}

\* (C5) witness: invoked without an argument in a built workspace whose
\* documents exist.
C5_Witness ==
    /\ Exited /\ status = 1
    /\ Len(argv) < 2
    /\ PackageDir("foo") \in dirs
    /\ IsObject(settings) /\ Mergeable(pyproject)

\* (C6) Missing lint config: with no pyproject.toml, an invocation that found
\* something ends with status 0, has created no pyproject.toml, and, when
\* search paths were found and settings.json can be written, has written them.
C6_MissingLintConfig ==
    (Exited /\ start.pyproject.kind = "absent" /\ Len(argv) >= 2 /\ ~NothingFound) =>
        /\ status = 0
        /\ pyproject.kind = "absent"
        /\ (python_paths # <<>> /\ "settings.json" \notin ioFails) =>
               /\ IsObject(settings)
               /\ "python.analysis.extraPaths" \in KeysOf(settings)
               /\ settings.value.d["python.analysis.extraPaths"] = Arr(python_paths)

\* What the six owned keys are set to.
OwnedSettings(paths) ==
    [k \in OwnedKeys |->
        CASE k = "python.defaultInterpreterPath" -> Str(interpreter_path)
          [] k = "python.analysis.extraPaths" -> Arr(paths)
          [] k = "python.autoComplete.extraPaths" -> Arr(paths)
          [] k = "python.analysis.typeCheckingMode" -> Str("basic")
          [] k = "python.analysis.diagnosticMode" -> Str("openFilesOnly")
          [] k = "cmake.configureOnOpen" -> False]

\* (C9) Unparseable settings: when settings.json existed but did not hold a
\* key-value document and can be written, a call of update_vscode_settings
\* returns, leaves exactly the six owned keys with their new values, and
\* main goes on to the lint-config step.
C9_UnparseableSettings ==
    (/\ "update_vscode_settings" \in called
     /\ start.settings.kind # "absent"
     /\ ~IsObject(start.settings)
     /\ "settings.json" \notin ioFails) =>
        /\ exc = "none"
        /\ settings = Parsed(Table(OwnedSettings(python_paths)))
        /\ Exited => status = 0

\* ------------------------------------------------------- discovery claims
Discovered == "find_paths_and_packages" \in called

\* (C7) The returned search paths are directories (as of discovery time),
\* are pairwise distinct, are the accumulated candidates when install/
\* exists, stand in the order of their first occurrence among the candidates,
\* and are what a successful settings write stores.
C7_OrderedUnique ==
    Discovered =>
        /\ \A i \in 1..Len(python_paths) : python_paths[i] \in start.dirs
        /\ \A i, j \in 1..Len(python_paths) : i # j => python_paths[i] # python_paths[j]
        /\ Range(python_paths) \subseteq Range(candidates)
        /\ install_dir \in dirs => Range(python_paths) = Range(candidates)
        /\ \A i, j \in 1..Len(python_paths) :
              i < j => FirstIndex(candidates, python_paths[i])
                           < FirstIndex(candidates, python_paths[j])
        /\ (Exited /\ status = 0 /\ python_paths # <<>> /\ "settings.json" \notin ioFails) =>
               /\ IsObject(settings)
               /\ settings.value.d["python.analysis.extraPaths"] = Arr(python_paths)

\* (C7) witness: candidates found in the order [A, B, A, C] are returned and
\* stored as [A, B, C].
C7_Witness ==
    /\ Exited /\ status = 0
    /\ Len(candidates) = 4
    /\ candidates[1] = candidates[3]
    /\ Cardinality(Range(candidates)) = 3
    /\ python_paths = <<candidates[1], candidates[2], candidates[4]>>
    /\ settings.value.d["python.analysis.extraPaths"] = Arr(python_paths)

\* (C8) Toolchain paths: with a distribution name and an install/ directory,
\* each of /opt/ros/<distro>/lib/pythonX.Y/site-packages and .../dist-packages
\* that is a directory is among the returned search paths.
C8_ToolchainPathsFound ==
    (Discovered /\ argv[2] = Distro /\ install_dir \in dirs) =>
        \A p \in ProperRosDirs \cap dirs : p \in Range(python_paths)

\* (C10) Missing install/: the function returns two empty collections, has
\* accumulated toolchain paths only (PYTHONPATH is not read), main ends with
\* sys.exit(1), and neither writer runs nor any document or directory changes.
C10_MissingInstall ==
    (Discovered /\ install_dir \notin dirs) =>
        /\ python_paths = <<>> /\ local_packages = <<>>
        /\ Range(candidates) \subseteq ProbedRosDirs
        /\ pc \in {"found", "exit"}
        /\ Exited => (status = 1 /\ exc = "none")
        /\ called \cap Writers = {}
        /\ settings = start.settings /\ pyproject = start.pyproject /\ dirs = start.dirs

\* (C10) witness: no install/, toolchain paths were found and dropped,
\* PYTHONPATH names an existing directory, and main has exited with 1.
C10_Witness ==
    /\ Exited /\ status = 1
    /\ Discovered /\ install_dir \notin dirs
    /\ candidates # <<>>
    /\ ExtraDir \in Range(environ)

====
